---- MODULE Spec2Model ----
(***************************************************************************)
(* DeepThink Canvas: the session orchestration of src/App.tsx (the App     *)
(* component whose handlers are at lines 272-367), the row editor of       *)
(* src/components/WorksheetRow.tsx and the guarded service calls of        *)
(* src/services/geminiService.ts.                                          *)
(*                                                                         *)
(* React state (useState) is the model's state.  A handler runs to its     *)
(* first await as one step; the continuation after the await is a second   *)
(* step that works on the values the handler captured (id, row, the rows   *)
(* of its render) and on the state current at that time (setRows(prev =>)).*)
(* React renders synchronously at the end of a discrete event, so a        *)
(* handler always closes over the state left by the previous event.        *)
(* A rejection that is already decided when the handler returns (getAI     *)
(* throwing inside an async function) is delivered in the microtask that   *)
(* follows the handler: no user event or timer runs in between.            *)
(***************************************************************************)
EXTENDS Integers, Sequences, FiniteSets, TLC

VARIABLES
    challenges,       \* useState<Challenge[]>        App.tsx:274
    activeChallenge,  \* useState<Challenge | null>   App.tsx:275
    rows,             \* useState<ReasoningRow[]>     App.tsx:277
    isLoading,        \* useState(false)              App.tsx:278
    sessionResult,    \* useState<SessionResult|null> App.tsx:279
    loadPending,      \* the getSuggestedChallenges() call of the mount effect
    critiqueCalls,    \* interrogateRow calls awaited by submitRow, in issue order
    evalCalls,        \* evaluateSession calls awaited by finishSession, in issue order
    microtask,        \* a continuation already queued behind the running handler
    nextId,           \* the next value safeUUID() returns
    last,             \* the handler or continuation that ran last (history)
    directCalls,      \* handler calls made past the controls' disabled attributes
    wt                \* one withTimeout(promise, ms, fallback) call

vars == <<challenges, activeChallenge, rows, isLoading, sessionResult, loadPending,
          critiqueCalls, evalCalls, microtask, nextId, last, directCalls, wt>>

appVars == <<challenges, activeChallenge, rows, isLoading, sessionResult, loadPending,
             critiqueCalls, evalCalls, microtask, nextId, last, directCalls>>

-----------------------------------------------------------------------------
(* Bounds of the model *)

\* safeUUID() values handed out in one run (rows ever created)
MaxRowIds == 4

\* ticks of the clock a withTimeout call is followed for
MaxClock == 3

\* handler calls made directly, past the controls, in one run
MaxDirectCalls == 2

\* row ids created in one run of the specification with fairness
MaxLiveRowIds == 3

\* row ids created in one run of the specification of the prior context
MaxCtxRowIds == 6

-----------------------------------------------------------------------------
(* Values *)

NULL == "null"
UNDEFINED == "undefined"

\* An optional number (depthScore?: number, a JSON field that may be missing) is
\* the set of its values: {} when it is undefined.
NoNumber == {}
Num(n) == {n}

\* sessionResult === null
NoResult == [absent |-> TRUE]

\* RowStatus, types.ts:1-6
Active == "Active"
Analyzing == "Analyzing"
Completed == "Completed"
Locked == "Locked"

SP == " "

\* what the user can have typed into a textarea: strings as character sequences
Contents == { <<>>, <<SP>>, <<"a">> }

IsSpace(ch) == ch = SP

RECURSIVE TrimStart(_)
TrimStart(s) == IF s # <<>> /\ IsSpace(Head(s)) THEN TrimStart(Tail(s)) ELSE s

RECURSIVE TrimEnd(_)
TrimEnd(s) ==
    IF s # <<>> /\ IsSpace(s[Len(s)]) THEN TrimEnd(SubSeq(s, 1, Len(s) - 1)) ELSE s

\* String.prototype.trim
Trim(s) == TrimEnd(TrimStart(s))

\* FALLBACK_CHALLENGES, by id
FALLBACK_CHALLENGES == << "1", "2", "3" >>

\* a catalog the service can answer with
ServiceCatalogs == { <<>>, << "s1" >> }

-----------------------------------------------------------------------------
(* geminiService.ts: withTimeout *)

PendingOut == [state |-> "pending", value |-> NULL]

\* a resolve function that settles again on every call
ResolveAgain(out, v) == [state |-> "fulfilled", value |-> v]

\* the resolve function of `new Promise((resolve) => ...)`: only the first call settles
Resolve(out, v) == IF out.state = "pending" THEN [state |-> "fulfilled", value |-> v] ELSE out

\* clearTimeout(timer): cancels a timer that has not fired, nothing otherwise
ClearTimeout(timer) == IF timer = "armed" THEN "cleared" ELSE timer

\* withTimeout up to its return: the timer is armed, the callbacks are attached
WithTimeoutStart(ms, fallback) ==
    [ms |-> ms, fallback |-> fallback, timer |-> "armed", out |-> PendingOut]

\* a timer callback that only logs
OnTimerSilent(w) == [w EXCEPT !.timer = "fired"]

\* the setTimeout callback (lines 43-46)
OnTimer(w) == [w EXCEPT !.timer = "fired", !.out = Resolve(w.out, w.fallback)]

\* the .then callback (lines 49-52)
OnThen(w, val) == [w EXCEPT !.timer = ClearTimeout(w.timer), !.out = Resolve(w.out, val)]

\* a .catch callback that passes the failure on
OnCatchRejects(w, err) ==
    [w EXCEPT !.timer = ClearTimeout(w.timer),
              !.out = IF w.out.state = "pending" THEN [state |-> "rejected", value |-> err]
                      ELSE w.out]

\* the .catch callback (lines 53-57)
OnCatch(w, err) == [w EXCEPT !.timer = ClearTimeout(w.timer), !.out = Resolve(w.out, w.fallback)]

\* the promise's own settlement, as withTimeout sees it
OpResolve(val) == [kind |-> "resolve", val |-> val]
OpReject(err) == [kind |-> "reject", err |-> err]
OpNever == [kind |-> "never"]

\* One withTimeout call run to the end: the timer callback runs before the
\* promise's callback (timerFirst) or never (the callback cleared it).
WithTimeout(op, timerFirst, ms, fallback) ==
    LET w0 == WithTimeoutStart(ms, fallback)
        w1 == IF timerFirst THEN OnTimer(w0) ELSE w0
        w2 == CASE op.kind = "resolve" -> OnThen(w1, op.val)
                [] op.kind = "reject" -> OnCatch(w1, op.err)
                [] OTHER -> w1
    IN  w2.out

-----------------------------------------------------------------------------
(* geminiService.ts: the three service calls *)

\* getAI: throws when process.env.API_KEY is missing at the time of the call
GetAI(apiKey) == IF apiKey THEN "client" ELSE "throw"

\* what ai.models.generateContent can do: answer with a text (empty, not JSON,
\* or JSON with a body), reject, or not answer
RespText(body) == [kind |-> "text", body |-> body]
RespEmpty == [kind |-> "empty"]
RespBadJson == [kind |-> "badjson"]
RespError == [kind |-> "error"]
RespNone == [kind |-> "none"]

\* timeouts of the three calls
ChallengesTimeoutMs == 1500
InterrogateTimeoutMs == 4000
EvaluateTimeoutMs == 8000

\* bodies the critique service can answer with: the expected fields, a score
\* outside the range the prompt asks for, and a body without the fields
CritiqueBodies ==
    { [interrogation |-> "Why?", depthScore |-> Num(7)],
      [interrogation |-> "Why?", depthScore |-> Num(11)],
      [interrogation |-> UNDEFINED, depthScore |-> NoNumber] }

CritiqueResponses ==
    { RespText(b) : b \in CritiqueBodies } \cup {RespEmpty, RespBadJson, RespError, RespNone}

fallbackResponse ==
    [text |-> "Can you elaborate on the specific trade-offs of this choice?",
     depthScore |-> Num(5)]

\* the async block interrogateRow hands to withTimeout (lines 133-158)
InterrogateOp(resp) ==
    CASE resp.kind = "text" ->
             OpResolve([text |-> resp.body.interrogation, depthScore |-> resp.body.depthScore])
      [] resp.kind = "empty" -> OpResolve(fallbackResponse)
      [] resp.kind = "badjson" -> OpReject("SyntaxError")
      [] resp.kind = "error" -> OpReject("ApiError")
      [] OTHER -> OpNever

\* history.slice(-3)
SliceLast(s, n) == IF Len(s) <= n THEN s ELSE SubSeq(s, Len(s) - n + 1, Len(s))

HistoryWindow == 3

\* interrogateRow: "throw" when getAI throws, else what withTimeout delivers
InterrogateRow(apiKey, resp, timerFirst) ==
    IF GetAI(apiKey) = "throw"
    THEN [state |-> "rejected", value |-> "API Key not found"]
    ELSE WithTimeout(InterrogateOp(resp), timerFirst, InterrogateTimeoutMs, fallbackResponse)

\* bodies the evaluation service can answer with
EvalBodies ==
    { [score |-> 80, summary |-> "ok", strengths |-> <<"s">>, weaknesses |-> <<"w">>] }

EvalResponses == { RespText(b) : b \in EvalBodies } \cup {RespEmpty, RespBadJson, RespError, RespNone}

\* a fallback whose lists were left empty
fallbackResultEmptyLists ==
    [score |-> 0, summary |-> "Could not generate report due to timeout or error.",
     strengths |-> <<>>, weaknesses |-> <<>>]

fallbackResult ==
    [score |-> 0, summary |-> "Could not generate report due to timeout or error.",
     strengths |-> <<"N/A">>, weaknesses |-> <<"N/A">>]

\* the async block evaluateSession hands to withTimeout (lines 186-208)
EvaluateOp(resp) ==
    CASE resp.kind = "text" -> OpResolve(resp.body)
      [] resp.kind = "empty" -> OpResolve(fallbackResult)
      [] resp.kind = "badjson" -> OpReject("SyntaxError")
      [] resp.kind = "error" -> OpReject("ApiError")
      [] OTHER -> OpNever

EvaluateSession(apiKey, resp, timerFirst) ==
    IF GetAI(apiKey) = "throw"
    THEN [state |-> "rejected", value |-> "API Key not found"]
    ELSE WithTimeout(EvaluateOp(resp), timerFirst, EvaluateTimeoutMs, fallbackResult)

ChallengeResponses ==
    { RespText(b) : b \in ServiceCatalogs } \cup {RespEmpty, RespBadJson, RespError, RespNone}

\* the async block getSuggestedChallenges hands to withTimeout (lines 68-94)
ChallengesOp(resp) ==
    CASE resp.kind = "text" -> OpResolve(resp.body)
      [] resp.kind = "empty" -> OpResolve(FALLBACK_CHALLENGES)
      [] resp.kind = "badjson" -> OpReject("SyntaxError")
      [] resp.kind = "error" -> OpReject("ApiError")
      [] OTHER -> OpNever

\* a getSuggestedChallenges without its try/catch
GetSuggestedChallengesNoCatch(apiKey, resp, timerFirst) ==
    IF GetAI(apiKey) = "throw"
    THEN [state |-> "rejected", value |-> "API Key not found"]
    ELSE WithTimeout(ChallengesOp(resp), timerFirst, ChallengesTimeoutMs, FALLBACK_CHALLENGES)

\* getSuggestedChallenges: the try/catch turns getAI's throw into the fallback
GetSuggestedChallenges(apiKey, resp, timerFirst) ==
    IF GetAI(apiKey) = "throw"
    THEN [state |-> "fulfilled", value |-> FALLBACK_CHALLENGES]
    ELSE WithTimeout(ChallengesOp(resp), timerFirst, ChallengesTimeoutMs, FALLBACK_CHALLENGES)

-----------------------------------------------------------------------------
(* App.tsx: the rows and the functions passed to setRows *)

\* the row startChallenge and submitRow create (lines 303-309, 335-341);
\* depthScore is absent until a critique sets it
NewRow(id, stepNumber) ==
    [id |-> id, stepNumber |-> stepNumber, content |-> <<>>, aiInterrogation |-> NULL,
     status |-> Active, depthScore |-> NoNumber]

\* prev.map(row => row.id === id ? { ...row, content } : row)      (line 314)
UpdateContent(rs, id, content) ==
    [i \in 1..Len(rs) |-> IF rs[i].id = id THEN [rs[i] EXCEPT !.content = content] ELSE rs[i]]

\* prev.map(r => r.id === id ? { ...r, status } : r)               (lines 322, 347)
SetStatus(rs, id, status) ==
    [i \in 1..Len(rs) |-> IF rs[i].id = id THEN [rs[i] EXCEPT !.status = status] ELSE rs[i]]

\* a catch that leaves the row as it is
RevertRowForgotten(rs, id) == rs

\* prev.map(r => r.id === id ? { ...r, status: RowStatus.Active } : r)  (line 347)
RevertRow(rs, id) == SetStatus(rs, id, Active)

\* a map that forgets the id test and completes every row
CompleteRowEvery(rs, id, analysis) ==
    [i \in 1..Len(rs) |->
        [rs[i] EXCEPT !.status = Completed,
                      !.aiInterrogation = analysis.text,
                      !.depthScore = analysis.depthScore]]

\* prev.map(r => r.id === id ? { ...r, status: Completed, ... } : r) (lines 328-333)
CompleteRow(rs, id, analysis) ==
    [i \in 1..Len(rs) |->
        IF rs[i].id = id
        THEN [rs[i] EXCEPT !.status = Completed,
                           !.aiInterrogation = analysis.text,
                           !.depthScore = analysis.depthScore]
        ELSE rs[i]]

\* prev => [...prev, newRow]                                        (line 343)
AppendRow(rs, newRow) == Append(rs, newRow)

\* rows.find(r => r.id === id): the index of the first match, 0 when there is none
FindRow(rs, id) ==
    IF \E i \in 1..Len(rs) : rs[i].id = id
    THEN CHOOSE i \in 1..Len(rs) : rs[i].id = id /\ \A j \in 1..(i - 1) : rs[j].id # id
    ELSE 0

\* rows.filter(r => r.stepNumber < row.stepNumber)                  (line 325)
PreviousRows(rs, row) == SelectSeq(rs, LAMBDA r : r.stepNumber < row.stepNumber)

\* a filter that keeps the Completed rows only
ValidRowsCompletedOnly(rs) == SelectSeq(rs, LAMBDA r : r.status = Completed)

\* rows.filter(r => r.status === Completed || r.content.trim().length > 0) (line 356)
ValidRows(rs) == SelectSeq(rs, LAMBDA r : r.status = Completed \/ Len(Trim(r.content)) > 0)

\* rows.filter(r => r.status === RowStatus.Completed).length        (line 487)
CompletedCount(rs) == Len(SelectSeq(rs, LAMBDA r : r.status = Completed))

MinCompletedToFinish == 2

\* a button that opens one Completed row too early
FinishDisabledBelowOne == isLoading \/ CompletedCount(rows) < MinCompletedToFinish - 1

\* a button that stays enabled while grading
FinishDisabledIgnoresLoading == CompletedCount(rows) < MinCompletedToFinish

\* the disabled attribute of the Submit Session button              (line 487)
FinishDisabled == isLoading \/ CompletedCount(rows) < MinCompletedToFinish

\* WorksheetRow.tsx:44, the disabled attribute of the textarea
IsLocked(row) == row.status = Completed \/ row.status = Analyzing \/ row.status = Locked

\* a check that forgets trim()
KeyDownSubmitsUntrimmed(row) == Len(row.content) > 0

\* WorksheetRow.tsx:38, Enter submits only a row with something typed
KeyDownSubmits(row) == Len(Trim(row.content)) > 0

\* which of the three views App renders (lines 381, 453, 470)
View ==
    IF activeChallenge = NULL THEN "list"
    ELSE IF sessionResult # NoResult THEN "report"
    ELSE "worksheet"

NoTask == [kind |-> "none"]

\* no continuation is queued behind the handler that just ran
Idle == microtask = NoTask

RemoveAt(s, j) == SubSeq(s, 1, j - 1) \o SubSeq(s, j + 1, Len(s))

-----------------------------------------------------------------------------
(* withTimeout followed callback by callback *)

WtValues == {"v1", "v2", "fb"}
WtReasons == {"ApiError", "SyntaxError"}
WtDeadlines == {1, 2}

\* no withTimeout call is being followed
WtIdle == [phase |-> "idle"]

\* a call withTimeout(promise, ms, fallback) that has just returned
WtCall(ms, fallback) ==
    [phase |-> "called", w |-> WithTimeoutStart(ms, fallback),
     promise |-> [state |-> "pending", value |-> NULL], clock |-> 0, first |-> "none"]

\* a step that records nothing beside its name and row
NoVal == [none |-> TRUE]

\* the row ids a run may create (crypto.randomUUID never runs out)
RowIdBound == IF wt.phase = "context" THEN MaxCtxRowIds ELSE MaxRowIds

-----------------------------------------------------------------------------
(* The state after App has mounted with an API key: the mount effect        *)
(* (lines 282-297) has set isLoading and called getSuggestedChallenges.     *)

Init ==
    /\ challenges = <<>>
    /\ activeChallenge = NULL
    /\ rows = <<>>
    /\ isLoading = TRUE
    /\ sessionResult = NoResult
    /\ loadPending = TRUE
    /\ critiqueCalls = <<>>
    /\ evalCalls = <<>>
    /\ microtask = NoTask
    /\ nextId = 1
    /\ last = [op |-> "mount", id |-> 0, val |-> NoVal]
    /\ directCalls = 0
    /\ wt = WtIdle

Did(op, id, val) == last' = [op |-> op, id |-> id, val |-> val]

\* the mount effect's .then/.catch/.finally on getSuggestedChallenges (lines 285-295);
\* the .catch sets only initError, which no handler reads
LoadSettled ==
    /\ Idle /\ loadPending
    /\ \E apiKey \in BOOLEAN, resp \in ChallengeResponses, timerFirst \in BOOLEAN :
         LET out == GetSuggestedChallenges(apiKey, resp, timerFirst) IN
         /\ out.state # "pending"
         /\ challenges' = IF out.state = "fulfilled" /\ Len(out.value) > 0
                          THEN out.value ELSE challenges
         /\ Did("loadSettled", 0, [apiKey |-> apiKey, out |-> out])
    /\ isLoading' = FALSE
    /\ loadPending' = FALSE
    /\ UNCHANGED <<activeChallenge, rows, sessionResult, critiqueCalls, evalCalls,
                   microtask, nextId, directCalls, wt>>

\* a startChallenge that forgets setSessionResult(null)
StartChallengeKeepsResult ==
    /\ Idle /\ View = "list"
    /\ nextId + Len(critiqueCalls) <= RowIdBound
    /\ \E k \in 1..Len(challenges) :
         /\ activeChallenge' = challenges[k]
         /\ rows' = << NewRow(nextId, 1) >>
         /\ nextId' = nextId + 1
         /\ Did("startChallenge", 0, NoVal)
    /\ UNCHANGED <<challenges, isLoading, sessionResult, loadPending, critiqueCalls,
                   evalCalls, microtask, directCalls, wt>>

\* startChallenge (lines 299-311), from a card of the challenge list (line 409)
StartChallenge ==
    /\ Idle /\ View = "list"
    /\ nextId + Len(critiqueCalls) <= RowIdBound
    /\ \E k \in 1..Len(challenges) :
         /\ activeChallenge' = challenges[k]
         /\ sessionResult' = NoResult
         /\ rows' = << NewRow(nextId, 1) >>
         /\ nextId' = nextId + 1
         /\ Did("startChallenge", 0, NoVal)
    /\ UNCHANGED <<challenges, isLoading, loadPending, critiqueCalls, evalCalls, microtask, directCalls, wt>>

\* updateRow (lines 313-315)
UpdateRow(id, content) ==
    /\ rows' = UpdateContent(rows, id, content)
    /\ Did("updateRow", id, [content |-> content])
    /\ UNCHANGED <<challenges, activeChallenge, isLoading, sessionResult, loadPending,
                   critiqueCalls, evalCalls, microtask, nextId, wt>>

\* the textarea's onChange (WorksheetRow.tsx:89): only an enabled textarea takes input
OnChange ==
    /\ Idle /\ View = "worksheet"
    /\ \E i \in 1..Len(rows), content \in Contents :
         /\ ~IsLocked(rows[i])
         /\ UpdateRow(rows[i].id, content)
    /\ UNCHANGED directCalls

\* submitRow (lines 317-350) up to its await; apiKey is what getAI finds
SubmitRow(id, apiKey) ==
    LET i == FindRow(rows, id) IN
    IF i = 0 \/ activeChallenge = NULL
    THEN UNCHANGED <<rows, critiqueCalls, microtask>>
    ELSE IF rows[i].status # Active
    THEN UNCHANGED <<rows, critiqueCalls, microtask>>
    ELSE LET row == rows[i]
             \* what the continuation keeps (id, row.stepNumber) and the prior
             \* context interrogateRow sends; the prompt's other text is not state
             call == [id |-> id, stepNumber |-> row.stepNumber,
                      history |-> SliceLast(PreviousRows(rows, row), HistoryWindow)]
         IN  /\ rows' = SetStatus(rows, id, Analyzing)
             /\ IF InterrogateRow(apiKey, RespNone, FALSE).state = "rejected"
                THEN /\ microtask' = [kind |-> "critiqueRejected", call |-> call]
                     /\ UNCHANGED critiqueCalls
                ELSE /\ nextId + Len(critiqueCalls) <= RowIdBound  \* an id is left for its new row
                     /\ critiqueCalls' = Append(critiqueCalls, call)
                     /\ UNCHANGED microtask

\* handleKeyDown for Enter without Shift (WorksheetRow.tsx:35-42)
HandleKeyDown ==
    /\ Idle /\ View = "worksheet"
    /\ \E i \in 1..Len(rows), apiKey \in BOOLEAN :
         /\ ~IsLocked(rows[i])
         /\ IF KeyDownSubmits(rows[i])
            THEN /\ SubmitRow(rows[i].id, apiKey)
            ELSE UNCHANGED <<rows, critiqueCalls, microtask>>
         /\ Did("keydown", rows[i].id, NoVal)
    /\ UNCHANGED <<challenges, activeChallenge, isLoading, sessionResult, loadPending,
                   evalCalls, nextId, directCalls, wt>>

\* submitRow after its await returned a value (lines 328-343)
CritiqueResolved ==
    /\ Idle
    /\ nextId <= RowIdBound
    /\ \E j \in 1..Len(critiqueCalls), resp \in CritiqueResponses, timerFirst \in BOOLEAN :
         LET call == critiqueCalls[j]
             out == InterrogateRow(TRUE, resp, timerFirst)
         IN  /\ out.state = "fulfilled"
             /\ rows' = AppendRow(CompleteRow(rows, call.id, out.value),
                                  NewRow(nextId, call.stepNumber + 1))
             /\ nextId' = nextId + 1
             /\ critiqueCalls' = RemoveAt(critiqueCalls, j)
             /\ Did("critiqueResolved", call.id,
                    [text |-> out.value.text, depthScore |-> out.value.depthScore,
                     resp |-> resp])
    /\ UNCHANGED <<challenges, activeChallenge, isLoading, sessionResult, loadPending,
                   evalCalls, microtask, directCalls, wt>>

\* submitRow's catch (lines 345-349)
CritiqueRejected ==
    /\ microtask.kind = "critiqueRejected"
    /\ rows' = RevertRow(rows, microtask.call.id)
    /\ microtask' = NoTask
    /\ Did("critiqueRejected", microtask.call.id, NoVal)
    /\ UNCHANGED <<challenges, activeChallenge, isLoading, sessionResult, loadPending,
                   critiqueCalls, evalCalls, nextId, directCalls, wt>>

\* finishSession (lines 352-367) up to its await
FinishSession(apiKey) ==
    IF activeChallenge = NULL
    THEN UNCHANGED <<isLoading, evalCalls, microtask>>
    ELSE LET call == [rows |-> ValidRows(rows), challenge |-> activeChallenge,
                      completed |-> CompletedCount(rows)]
         IN  /\ isLoading' = TRUE
             /\ IF EvaluateSession(apiKey, RespNone, FALSE).state = "rejected"
                THEN /\ microtask' = [kind |-> "evalRejected", call |-> call]
                     /\ UNCHANGED evalCalls
                ELSE /\ evalCalls' = Append(evalCalls, call)
                     /\ UNCHANGED microtask

\* a click on the Submit Session button (lines 485-491)
ClickFinish ==
    /\ Idle /\ View = "worksheet"
    /\ ~FinishDisabled
    /\ \E apiKey \in BOOLEAN :
         /\ FinishSession(apiKey)
         /\ Did("finishSession", 0, [apiKey |-> apiKey])
    /\ UNCHANGED <<challenges, activeChallenge, rows, sessionResult, loadPending,
                   critiqueCalls, nextId, directCalls, wt>>

\* a continuation that stores the result and leaves the flag set
EvalResolvedKeepsLoading ==
    /\ Idle
    /\ \E j \in 1..Len(evalCalls), resp \in EvalResponses, timerFirst \in BOOLEAN :
         LET out == EvaluateSession(TRUE, resp, timerFirst) IN
         /\ out.state = "fulfilled"
         /\ sessionResult' = out.value
         /\ evalCalls' = RemoveAt(evalCalls, j)
         /\ Did("evalResolved", 0, [resp |-> resp, timerFirst |-> timerFirst,
                                     value |-> out.value])
    /\ UNCHANGED <<challenges, activeChallenge, rows, isLoading, loadPending, critiqueCalls,
                   microtask, nextId, directCalls, wt>>

\* finishSession after its await returned a value (lines 360, 365)
EvalResolved ==
    /\ Idle
    /\ \E j \in 1..Len(evalCalls), resp \in EvalResponses, timerFirst \in BOOLEAN :
         LET out == EvaluateSession(TRUE, resp, timerFirst) IN
         /\ out.state = "fulfilled"
         /\ sessionResult' = out.value
         /\ evalCalls' = RemoveAt(evalCalls, j)
         /\ Did("evalResolved", 0, [resp |-> resp, timerFirst |-> timerFirst,
                                     value |-> out.value])
    /\ isLoading' = FALSE
    /\ UNCHANGED <<challenges, activeChallenge, rows, loadPending, critiqueCalls,
                   microtask, nextId, directCalls, wt>>

\* a catch without the finally: the flag is never cleared
EvalRejectedKeepsLoading ==
    /\ microtask.kind = "evalRejected"
    /\ microtask' = NoTask
    /\ Did("evalRejected", 0, NoVal)
    /\ UNCHANGED <<challenges, activeChallenge, rows, isLoading, sessionResult, loadPending,
                   critiqueCalls, evalCalls, nextId, directCalls, wt>>

\* finishSession's catch and finally (lines 361-366)
EvalRejected ==
    /\ microtask.kind = "evalRejected"
    /\ isLoading' = FALSE
    /\ microtask' = NoTask
    /\ Did("evalRejected", 0, NoVal)
    /\ UNCHANGED <<challenges, activeChallenge, rows, sessionResult, loadPending,
                   critiqueCalls, evalCalls, nextId, directCalls, wt>>

\* the header's DeepThink link (line 476)
BackToList ==
    /\ Idle /\ View = "worksheet"
    /\ activeChallenge' = NULL
    /\ Did("back", 0, NoVal)
    /\ UNCHANGED <<challenges, rows, isLoading, sessionResult, loadPending,
                   critiqueCalls, evalCalls, microtask, nextId, directCalls, wt>>

\* onRestart of the report (lines 459-463)
Restart ==
    /\ Idle /\ View = "report"
    /\ activeChallenge' = NULL
    /\ rows' = <<>>
    /\ sessionResult' = NoResult
    /\ Did("restart", 0, NoVal)
    /\ UNCHANGED <<challenges, isLoading, loadPending, critiqueCalls, evalCalls,
                   microtask, nextId, directCalls, wt>>

Next ==
    \/ LoadSettled
    \/ StartChallenge
    \/ OnChange
    \/ HandleKeyDown
    \/ CritiqueResolved
    \/ CritiqueRejected
    \/ ClickFinish
    \/ EvalResolved
    \/ EvalRejected
    \/ BackToList
    \/ Restart

Spec == Init /\ [][Next]_vars

-----------------------------------------------------------------------------
(* One withTimeout call, callback by callback.  The promise's callback runs  *)
(* in the microtask that follows the promise's settlement, so settlement and *)
(* callback are one step; the timer's callback is a task of its own and runs *)
(* no earlier than ms after the call.                                        *)

InitWT ==
    /\ challenges = <<>>
    /\ activeChallenge = NULL
    /\ rows = <<>>
    /\ isLoading = FALSE
    /\ sessionResult = NoResult
    /\ loadPending = FALSE
    /\ critiqueCalls = <<>>
    /\ evalCalls = <<>>
    /\ microtask = NoTask
    /\ nextId = 1
    /\ last = [op |-> "withTimeout", id |-> 0, val |-> NoVal]
    /\ directCalls = 0
    /\ \E ms \in WtDeadlines, fallback \in WtValues : wt = WtCall(ms, fallback)

First(w) == IF w.first = "none" THEN "promise" ELSE w.first

WtTick ==
    /\ wt.phase = "called"
    /\ wt.clock < MaxClock
    /\ wt' = [wt EXCEPT !.clock = wt.clock + 1]
    /\ UNCHANGED appVars

\* the promise resolves and its .then callback runs
WtResolved ==
    /\ wt.phase = "called"
    /\ wt.promise.state = "pending"
    /\ \E v \in WtValues :
         wt' = [wt EXCEPT !.promise = [state |-> "fulfilled", value |-> v],
                          !.w = OnThen(wt.w, v),
                          !.first = First(wt)]
    /\ UNCHANGED appVars

\* the promise rejects and the .catch callback runs
WtRejected ==
    /\ wt.phase = "called"
    /\ wt.promise.state = "pending"
    /\ \E err \in WtReasons :
         wt' = [wt EXCEPT !.promise = [state |-> "rejected", value |-> err],
                          !.w = OnCatch(wt.w, err),
                          !.first = First(wt)]
    /\ UNCHANGED appVars

\* the timer's callback runs: the timer was not cleared and ms have passed
WtTimerFired ==
    /\ wt.phase = "called"
    /\ wt.w.timer = "armed"
    /\ wt.clock >= wt.w.ms
    /\ wt' = [wt EXCEPT !.w = OnTimer(wt.w),
                        !.first = IF wt.first = "none" THEN "timer" ELSE wt.first]
    /\ UNCHANGED appVars

NextWT == WtTick \/ WtResolved \/ WtRejected \/ WtTimerFired

SpecWT == InitWT /\ [][NextWT]_vars

\* The event loop runs a timer callback that is due, and time passes; nothing
\* makes the wrapped promise settle.
FairWT == WF_vars(WtTick) /\ WF_vars(WtTimerFired)

SpecWTFair == InitWT /\ [][NextWT]_vars /\ FairWT

-----------------------------------------------------------------------------
(* One session with the handlers called directly, as the props              *)
(* onChange={updateRow} and onSubmit={submitRow} allow for every rendered    *)
(* row (lines 514-522), whatever the row's textarea permits.                 *)

UpdateRowCall ==
    /\ Idle
    /\ directCalls < MaxDirectCalls
    /\ directCalls' = directCalls + 1
    /\ \E i \in 1..Len(rows), content \in Contents : UpdateRow(rows[i].id, content)

SubmitRowCall ==
    /\ Idle
    /\ directCalls < MaxDirectCalls
    /\ directCalls' = directCalls + 1
    /\ \E i \in 1..Len(rows), apiKey \in BOOLEAN :
         /\ SubmitRow(rows[i].id, apiKey)
         /\ Did("submitRowCall", rows[i].id, NoVal)
    /\ UNCHANGED <<challenges, activeChallenge, isLoading, sessionResult, loadPending,
                   evalCalls, nextId, wt>>

NextApi ==
    \/ LoadSettled
    \/ StartChallenge
    \/ OnChange
    \/ HandleKeyDown
    \/ UpdateRowCall
    \/ SubmitRowCall
    \/ CritiqueResolved
    \/ CritiqueRejected

SpecApi == Init /\ [][NextApi]_vars

-----------------------------------------------------------------------------
(* The application with its scheduling.  A callback that is due runs: the   *)
(* catch of a rejected call in the microtask after the handler, the        *)
(* continuation of an await once withTimeout has settled, which the timer  *)
(* guarantees.  The service either behaves freely at every call or stays   *)
(* silent for the whole run; wt holds which.                               *)

ServiceModes == {"free", "silent"}

InitLive ==
    /\ challenges = <<>>
    /\ activeChallenge = NULL
    /\ rows = <<>>
    /\ isLoading = TRUE
    /\ sessionResult = NoResult
    /\ loadPending = TRUE
    /\ critiqueCalls = <<>>
    /\ evalCalls = <<>>
    /\ microtask = NoTask
    /\ nextId = 1
    /\ last = [op |-> "mount", id |-> 0, val |-> NoVal]
    /\ directCalls = 0
    /\ wt \in { [phase |-> "service", mode |-> m] : m \in ServiceModes }

\* an id stays in reserve for every call in flight, within MaxLiveRowIds
LiveBound == nextId' + Len(critiqueCalls') <= MaxLiveRowIds + 1

StartChallengeLive == StartChallenge /\ LiveBound

HandleKeyDownLive == HandleKeyDown /\ LiveBound

\* the continuation of submitRow, the service silent in a silent run
CritiqueResolvedLive ==
    /\ CritiqueResolved
    /\ wt.mode = "silent" => last'.val.resp = RespNone

\* the continuation of finishSession, the service silent in a silent run
EvalResolvedLive ==
    /\ EvalResolved
    /\ wt.mode = "silent" => last'.val.resp = RespNone

NextLive ==
    \/ LoadSettled
    \/ StartChallengeLive
    \/ OnChange
    \/ HandleKeyDownLive
    \/ CritiqueResolvedLive
    \/ CritiqueRejected
    \/ ClickFinish
    \/ EvalResolvedLive
    \/ EvalRejected
    \/ BackToList
    \/ Restart

\* what a settlement changes
callVars == <<critiqueCalls, evalCalls, microtask>>

\* strong for the continuations, which a pending catch delays by one step
FairLive ==
    /\ SF_callVars(CritiqueResolvedLive)
    /\ SF_callVars(EvalResolvedLive)
    /\ WF_callVars(CritiqueRejected)
    /\ WF_callVars(EvalRejected)

SpecLive == InitLive /\ [][NextLive]_vars /\ FairLive

-----------------------------------------------------------------------------
(* Sessions long enough for the window of history.slice(-3) to matter: the *)
(* user types one text, the credential is present, the service answers     *)
(* with an empty text, and the session is never finished.                  *)

InitCtx ==
    /\ challenges = <<>>
    /\ activeChallenge = NULL
    /\ rows = <<>>
    /\ isLoading = TRUE
    /\ sessionResult = NoResult
    /\ loadPending = TRUE
    /\ critiqueCalls = <<>>
    /\ evalCalls = <<>>
    /\ microtask = NoTask
    /\ nextId = 1
    /\ last = [op |-> "mount", id |-> 0, val |-> NoVal]
    /\ directCalls = 0
    /\ wt = [phase |-> "context"]

LoadSettledCtx == LoadSettled /\ challenges' = FALLBACK_CHALLENGES

StartChallengeCtx == StartChallenge /\ activeChallenge' = challenges[1]

OnChangeCtx == OnChange /\ last'.val.content = <<"a">>

HandleKeyDownCtx == HandleKeyDown /\ microtask' = NoTask

CritiqueResolvedCtx == CritiqueResolved /\ last'.val.resp = RespEmpty

NextCtx ==
    \/ LoadSettledCtx
    \/ StartChallengeCtx
    \/ OnChangeCtx
    \/ HandleKeyDownCtx
    \/ CritiqueResolvedCtx
    \/ BackToList

SpecCtx == InitCtx /\ [][NextCtx]_vars

-----------------------------------------------------------------------------
(* Properties *)

\* a text that is empty or made of white space only
IsBlankText(c) == \A i \in 1..Len(c) : c[i] = SP

OpenRows(rs) == { i \in 1..Len(rs) : rs[i].status \in {Active, Analyzing} }

AnalyzingRows(rs) == { i \in 1..Len(rs) : rs[i].status = Analyzing }

\* C1: in every reachable state the stepNumber values of the rows, read in list
\* order, are exactly 1, 2, ..., N: no gap and no repeat.
C1_StepNumbersAreOneToN == \A i \in 1..Len(rows) : rows[i].stepNumber = i

\* C2: in every reachable state at most one row is Active or Analyzing, that row
\* is the last row of the list, and every row before it is Completed.
C2_OneOpenRowAndItIsLast ==
    /\ Cardinality(OpenRows(rows)) <= 1
    /\ \A i \in OpenRows(rows) :
         /\ i = Len(rows)
         /\ \A j \in 1..(i - 1) : rows[j].status = Completed

\* C3: at any instant at most one critique call is in flight and at most one row
\* is Analyzing (from which completion in submission order would follow).
C3_OneCritiqueInFlight ==
    /\ Len(critiqueCalls) <= 1
    /\ Cardinality(AnalyzingRows(rows)) <= 1

\* C4: when the critique call for the Analyzing row at position k returns
\* (text, depthScore), that row becomes Completed with exactly that text and
\* score, and exactly one new row is put directly after it, with stepNumber k+1,
\* status Active, empty content and null critique; no other row changes.
C4_CritiqueCompletesAndAppends ==
    [][ Len(critiqueCalls') < Len(critiqueCalls) =>
          LET k == FindRow(rows, last'.id)
              a == last'.val
          IN  (k > 0 /\ rows[k].status = Analyzing) =>
                /\ Len(rows') = Len(rows) + 1
                /\ rows'[k] = [rows[k] EXCEPT !.status = Completed,
                                              !.aiInterrogation = a.text,
                                              !.depthScore = a.depthScore]
                /\ rows'[k + 1].stepNumber = k + 1
                /\ rows'[k + 1].status = Active
                /\ rows'[k + 1].content = <<>>
                /\ rows'[k + 1].aiInterrogation = NULL
                /\ \A i \in 1..Len(rows) :
                     /\ i < k => rows'[i] = rows[i]
                     /\ i > k => rows'[i + 1] = rows[i] ]_vars

\* C5: when interrogateRow rejects, the submitted row goes from Analyzing back to
\* Active with its content unchanged, no row is appended or otherwise changed,
\* no call stays in flight for it, and the row can be submitted again.
C5_RejectionRevertsRow ==
    [][ microtask.kind = "critiqueRejected" =>
          LET k == FindRow(rows, microtask.call.id) IN
          /\ k > 0
          /\ rows[k].status = Analyzing
          /\ Len(rows') = Len(rows)
          /\ \A i \in 1..Len(rows) :
               rows'[i] = IF i = k THEN [rows[k] EXCEPT !.status = Active] ELSE rows[i]
          /\ critiqueCalls' = critiqueCalls
          /\ microtask' = NoTask
          /\ activeChallenge' # NULL /\ sessionResult' = NoResult
          /\ ~IsBlankText(rows'[k].content) ]_vars

\* a rejected submission has just been undone and the row is open again
C5_Witness ==
    /\ last.op = "critiqueRejected"
    /\ \E k \in 1..Len(rows) :
         rows[k].id = last.id /\ rows[k].status = Active /\ rows[k].content = <<"a">>

\* C6: Enter on a row whose content is empty or white space only changes
\* nothing: the row list is the same (the row stays Active) and no critique call
\* is issued or queued.
C6_BlankSubmitIsNoOp ==
    [][ last'.op = "keydown" =>
          LET k == FindRow(rows, last'.id) IN
          (k > 0 /\ IsBlankText(rows[k].content)) =>
            /\ rows' = rows
            /\ rows'[k].status = Active
            /\ critiqueCalls' = critiqueCalls
            /\ microtask' = microtask ]_vars

\* Enter has just been pressed on a row holding white space only
C6_Witness ==
    /\ last.op = "keydown"
    /\ \E k \in 1..Len(rows) :
         rows[k].id = last.id /\ rows[k].content = <<SP>> /\ rows[k].status = Active

\* C7: an updateRow addressed to a Completed row leaves that row's content as it was.
C7_CompletedRowIsReadOnly ==
    [][ last'.op = "updateRow" =>
          LET k == FindRow(rows, last'.id) IN
          (k > 0 /\ rows[k].status = Completed) => rows'[k].content = rows[k].content ]_vars

\* C8: an evaluation call is only ever issued with at least 2 rows Completed, and
\* with exactly 2 rows Completed (and no grading in progress) the Submit Session
\* button is enabled.
C8_FinishNeedsTwoCompleted ==
    /\ \A j \in 1..Len(evalCalls) : evalCalls[j].completed >= 2
    /\ microtask.kind = "evalRejected" => microtask.call.completed >= 2
    /\ (View = "worksheet" /\ ~isLoading /\ CompletedCount(rows) = 2) => ~FinishDisabled

\* an evaluation call is in flight that was issued with exactly 2 rows Completed
C8_Witness == \E j \in 1..Len(evalCalls) : evalCalls[j].completed = 2

\* C9: withTimeout delivers the promise's value when the promise resolves before
\* the timer fires, and exactly the fallback when the timer fires first, also
\* after the promise has then resolved.
C9_WithTimeoutValue ==
    wt.phase = "called" =>
      /\ (wt.first = "promise" /\ wt.promise.state = "fulfilled") =>
            wt.w.out = [state |-> "fulfilled", value |-> wt.promise.value]
      /\ wt.first = "timer" => wt.w.out = [state |-> "fulfilled", value |-> wt.w.fallback]

\* the timer fired first and the promise then resolved with another value
C9_Witness ==
    /\ wt.phase = "called"
    /\ wt.first = "timer"
    /\ wt.promise.state = "fulfilled"
    /\ wt.promise.value # wt.w.fallback

\* C10: when the promise rejects before the timer fires, withTimeout resolves to
\* the fallback; the promise it returns never rejects, whatever the reason.
C10_RejectionGivesFallback ==
    wt.phase = "called" =>
      /\ wt.w.out.state # "rejected"
      /\ (wt.first = "promise" /\ wt.promise.state = "rejected") =>
            wt.w.out = [state |-> "fulfilled", value |-> wt.w.fallback]

\* the promise rejected while the timer was still armed
C10_Witness ==
    /\ wt.phase = "called"
    /\ wt.first = "promise"
    /\ wt.promise.state = "rejected"
    /\ wt.w.timer = "cleared"

\* C11: every withTimeout call delivers exactly one outcome, the promise's value
\* or the fallback: once delivered it never changes, and one is eventually
\* delivered even when the promise never settles.
C11_ExactlyOneOutcome ==
    /\ [](wt.w.out.state = "fulfilled" =>
            \/ wt.w.out.value = wt.w.fallback
            \/ wt.promise.state = "fulfilled" /\ wt.w.out.value = wt.promise.value)
    /\ [][wt.w.out.state # "pending" => wt'.w.out = wt.w.out]_vars
    /\ <>(wt.w.out.state = "fulfilled")

\* the promise is still pending and the caller has its outcome
C11_Witness ==
    /\ wt.phase = "called"
    /\ wt.promise.state = "pending"
    /\ wt.w.out = [state |-> "fulfilled", value |-> wt.w.fallback]

\* C12: when the evaluation times out or fails inside withTimeout, the stored
\* session result is exactly {score 0, the fixed message, ["N/A"], ["N/A"]}.
C12_EvaluationFallbackStored ==
    [][ (/\ last'.op = "evalResolved"
         /\ \/ last'.val.timerFirst
            \/ last'.val.resp.kind \in {"error", "badjson"})
        => sessionResult' =
             [score |-> 0, summary |-> "Could not generate report due to timeout or error.",
              strengths |-> <<"N/A">>, weaknesses |-> <<"N/A">>] ]_vars

\* the evaluation timed out with at least 2 rows Completed, and a result is stored
C12_Witness ==
    /\ last.op = "evalResolved"
    /\ last.val.timerFirst
    /\ last.val.resp.kind = "none"
    /\ CompletedCount(rows) >= 2
    /\ sessionResult # NoResult

\* C13: when the evaluateSession call of finishSession rejects, the result stays
\* absent, rows and active challenge are unchanged, the grading flag is cleared,
\* and finishSession can be invoked again.
C13_EvalRejectionLeavesSession ==
    [][ microtask.kind = "evalRejected" =>
          /\ sessionResult = NoResult /\ sessionResult' = NoResult
          /\ rows' = rows
          /\ activeChallenge' = activeChallenge
          /\ evalCalls' = evalCalls
          /\ isLoading' = FALSE
          /\ activeChallenge' # NULL
          /\ Len(SelectSeq(rows', LAMBDA r : r.status = Completed)) >= 2
          /\ microtask' = NoTask ]_vars

\* the rejection was handled: worksheet still shown, the button open again
C13_Witness ==
    /\ last.op = "evalRejected"
    /\ View = "worksheet"
    /\ ~FinishDisabled
    /\ sessionResult = NoResult

\* C14: a missing credential is absorbed into the fallback for challenge listing
\* and for evaluation: getSuggestedChallenges resolves to the fallback catalog,
\* evaluateSession resolves to the fallback result, and neither rejects.
C14_MissingKeyAbsorbed ==
    [][ /\ (last'.op = "loadSettled" /\ ~last'.val.apiKey) =>
              last'.val.out = [state |-> "fulfilled", value |-> << "1", "2", "3" >>]
        /\ (last'.op = "finishSession" /\ ~last'.val.apiKey) =>
              /\ microtask' = NoTask
              /\ Len(evalCalls') = Len(evalCalls) + 1 ]_vars

\* C14, amended: a missing credential is absorbed into the fallback catalog by
\* getSuggestedChallenges only; evaluateSession rejects with it, finishSession
\* catches the rejection, and no evaluation is in flight nor any result stored.
C14_MissingKeyListingOnly ==
    [][ /\ (last'.op = "loadSettled" /\ ~last'.val.apiKey) =>
              /\ last'.val.out = [state |-> "fulfilled", value |-> << "1", "2", "3" >>]
              /\ challenges' = << "1", "2", "3" >>
        /\ (last'.op = "finishSession" /\ ~last'.val.apiKey) =>
              /\ microtask'.kind = "evalRejected"
              /\ evalCalls' = evalCalls
              /\ sessionResult' = NoResult ]_vars

\* finishSession ran without a credential, in a session started from the
\* fallback catalog
C14_Witness ==
    /\ last.op = "finishSession"
    /\ ~last.val.apiKey
    /\ microtask.kind = "evalRejected"
    /\ activeChallenge \in {"1", "2", "3"}

\* C15: getSuggestedChallenges never rejects and always resolves to a sequence
\* with at least one challenge, whatever the external service does (a parseable
\* body including an empty list, empty text, a failure, no answer in time).
C15_AtLeastOneChallenge ==
    last.op = "loadSettled" =>
        /\ last.val.out.state = "fulfilled"
        /\ Len(last.val.out.value) >= 1

\* C16: a critique or evaluation result that settles after its session was left
\* (back link then startChallenge, or restart) changes nothing in the current
\* session: no row appended or modified, no session result stored.
C16_StaleSettlementIgnored ==
    [][ /\ ( /\ last'.op = "critiqueResolved"
             /\ activeChallenge # NULL
             /\ \A i \in 1..Len(rows) : rows[i].id # last'.id )
           => rows' = rows /\ sessionResult' = sessionResult
        /\ ( /\ last'.op = "evalResolved"
             /\ activeChallenge # NULL
             /\ \A i \in 1..Len(rows) : rows[i].id # evalCalls[1].rows[1].id )
           => rows' = rows /\ sessionResult' = sessionResult ]_vars

\* C17: once a session result is stored the session is terminal: until restart
\* the result is never replaced and the rows accept no change, not even from a
\* critique call still in flight when the session was finished.
C17_ResultIsTerminal ==
    [][ (sessionResult # NoResult /\ last'.op \notin {"restart", "startChallenge"})
        => sessionResult' = sessionResult /\ rows' = rows ]_vars

\* C18: from the start of an evaluation call to its settlement the grading flag
\* is set and no second finishSession starts: at most one evaluation in flight.
C18_OneEvaluationInFlight ==
    /\ [](Len(evalCalls) + (IF microtask.kind = "evalRejected" THEN 1 ELSE 0) <= 1)
    /\ []((Len(evalCalls) >= 1 \/ microtask.kind = "evalRejected") => isLoading)
    /\ [][Len(evalCalls) >= 1 => last'.op # "finishSession"]_vars

\* an evaluation is in flight on a worksheet that has enough Completed rows
C18_Witness ==
    /\ Len(evalCalls) = 1
    /\ isLoading
    /\ View = "worksheet"
    /\ Len(SelectSeq(rows, LAMBDA r : r.status = Completed)) >= 2

\* C19: the rows finishSession passes to evaluateSession are exactly the
\* Completed rows plus the trailing Active row when it is non-blank, in list
\* order; a blank trailing row is dropped and no other row without a critique
\* is included.
C19_GradedRowsCompletedPlusTrailingActive ==
    [][ last'.op = "finishSession" =>
          (IF microtask'.kind = "evalRejected"
           THEN microtask'.call.rows
           ELSE evalCalls'[Len(evalCalls')].rows)
          = SelectSeq(rows, LAMBDA r :
                \/ r.status = Completed
                \/ /\ r.id = rows[Len(rows)].id
                   /\ r.status = Active
                   /\ ~IsBlankText(r.content)) ]_vars

\* C19, amended: the rows finishSession passes to evaluateSession are exactly the
\* Completed rows plus every other row whose content is non-blank (the trailing
\* Active row, or a row still Analyzing), in list order; blank rows are dropped.
C19_GradedRowsCompletedOrNonBlank ==
    [][ last'.op = "finishSession" =>
          (IF microtask'.kind = "evalRejected"
           THEN microtask'.call.rows
           ELSE evalCalls'[Len(evalCalls')].rows)
          = SelectSeq(rows, LAMBDA r :
                r.status = Completed \/ ~IsBlankText(r.content)) ]_vars

\* an evaluation was issued with a row that was still Analyzing, while the
\* list it was taken from ended in that row
C19_Witness ==
    /\ last.op = "finishSession"
    /\ Len(evalCalls) = 1
    /\ \E i \in 1..Len(evalCalls[1].rows) : evalCalls[1].rows[i].status = Analyzing
    /\ rows[Len(rows)].status = Analyzing

\* C20: startChallenge, from any prior state (rows and a result left over from
\* an abandoned session included), leaves the session result absent and the
\* row list equal to one row: stepNumber 1, Active, empty content, null critique.
C20_StartChallengeResets ==
    [][ last'.op = "startChallenge" =>
          /\ sessionResult' = NoResult
          /\ activeChallenge' # NULL
          /\ Len(rows') = 1
          /\ rows'[1].stepNumber = 1
          /\ rows'[1].status = "Active"
          /\ rows'[1].content = <<>>
          /\ rows'[1].aiInterrogation = NULL ]_vars

\* a session started while a critique call of an abandoned session is in flight
C20_Witness ==
    /\ last.op = "startChallenge"
    /\ Len(critiqueCalls) >= 1
    /\ Len(rows) = 1
    /\ rows[1].id > 1
    /\ sessionResult = NoResult

\* C21: when the critique service answers with a parseable body that lacks the
\* interrogation text or the depthScore, interrogateRow returns the fixed
\* fallback pair (the generic elaboration prompt, score 5), as for a failure.
C21_MalformedBodyGivesFallback ==
    [][ ( /\ last'.op = "critiqueResolved"
          /\ last'.val.resp.kind = "text"
          /\ \/ last'.val.resp.body.interrogation = UNDEFINED
             \/ last'.val.resp.body.depthScore = {} )
        => /\ last'.val.text = "Can you elaborate on the specific trade-offs of this choice?"
           /\ last'.val.depthScore = {5} ]_vars

\* C22: every Completed row carries a depth score between 1 and 10 inclusive,
\* whatever number the critique service returns; rows that are not Completed
\* carry no depth score.
C22_DepthScoreInRange ==
    \A i \in 1..Len(rows) :
        IF rows[i].status = Completed
        THEN \E n \in 1..10 : rows[i].depthScore = {n}
        ELSE rows[i].depthScore = {}

\* C23: a row that has reached Completed never changes status again, and its
\* critique text and depth score are never overwritten while it is in the list,
\* under any later submit, edit or call settlement.
C23_CompletedRowIsFinal ==
    [][ \A i \in 1..Len(rows) : \A j \in 1..Len(rows') :
          (rows[i].status = Completed /\ rows'[j].id = rows[i].id) =>
              /\ rows'[j].status = Completed
              /\ rows'[j].aiInterrogation = rows[i].aiInterrogation
              /\ rows'[j].depthScore = rows[i].depthScore ]_vars

\* a second critique has settled and the first row kept its own critique
C23_Witness ==
    /\ last.op = "critiqueResolved"
    /\ Len(rows) >= 3
    /\ rows[1].status = Completed /\ rows[2].status = Completed
    /\ rows[2].id = last.id
    /\ rows[1].aiInterrogation # rows[2].aiInterrogation

\* C24: every row that enters Analyzing eventually leaves it, to Completed or
\* back to Active, whatever the critique service does (answers, fails, never
\* answers), the deadline timer firing.
C24_AnalyzingEventuallyLeaves ==
    /\ \A id \in 1..MaxLiveRowIds :
         (\E i \in 1..Len(rows) : rows[i].id = id /\ rows[i].status = Analyzing)
         ~> ~(\E i \in 1..Len(rows) : rows[i].id = id /\ rows[i].status = Analyzing)
    /\ [][ \A i \in 1..Len(rows) : \A j \in 1..Len(rows') :
             (rows[i].status = Analyzing /\ rows'[j].id = rows[i].id) =>
                 rows'[j].status \in {Analyzing, Completed, Active} ]_vars

\* a row was completed with the fallback after the silent service's deadline
C24_Witness ==
    /\ wt.mode = "silent"
    /\ last.op = "critiqueResolved"
    /\ \E i \in 1..Len(rows) :
         /\ rows[i].id = last.id
         /\ rows[i].status = Completed
         /\ rows[i].depthScore = {5}

\* C25: every finishSession that sets the grading flag eventually clears it, on
\* each outcome (evaluation value, fallback after timeout or failure,
\* rejection), the deadline timer firing.
C25_GradingFlagEventuallyCleared ==
    (isLoading /\ ~loadPending) ~> ~isLoading

\* the flag was cleared after the silent service's deadline gave the fallback
C25_Witness ==
    /\ wt.mode = "silent"
    /\ last.op = "evalResolved"
    /\ last.val.timerFirst
    /\ ~isLoading
    /\ sessionResult.score = 0

\* C26: for a submitted row at position k, the prior context sent to the
\* critique service is the contents of the rows at positions max(1, k-3) .. k-1,
\* in increasing position order: all prior rows when there are at most 3,
\* otherwise only the last 3.
C26_PriorContextIsLastThree ==
    [][ Len(critiqueCalls') > Len(critiqueCalls) =>
          LET k == CHOOSE i \in 1..Len(rows) : rows[i].id = last'.id
              from == IF k - 3 > 1 THEN k - 3 ELSE 1
              sent == critiqueCalls'[Len(critiqueCalls')].history
          IN  /\ Len(sent) = k - from
              /\ \A n \in 1..Len(sent) : sent[n].content = rows[from + n - 1].content ]_vars

\* C27: in every reachable state where a session result is present, the row
\* list holds at least 2 Completed rows and the result was produced by an
\* evaluation call issued for the currently active challenge.
C27_ResultBelongsToSession ==
    [][ /\ last'.op = "evalResolved" =>
              /\ evalCalls[1].challenge = activeChallenge'
              /\ Len(SelectSeq(rows', LAMBDA r : r.status = Completed)) >= 2
        /\ (sessionResult # NoResult /\ sessionResult' # NoResult) =>
              /\ activeChallenge' = activeChallenge
              /\ Len(SelectSeq(rows', LAMBDA r : r.status = Completed)) >= 2 ]_vars

====
